---- MODULE Spec2Model ----
(***************************************************************************)
(* Model of bibbias (src/src/bias.py): resolution of the gender of first   *)
(* and last authors of a bibliography through a file-backed name cache and *)
(* a remote lookup, and the nine-category report.                          *)
(*                                                                         *)
(* Python strings are modelled as sequences of one-character strings, so   *)
(* that strip / split / lower / re.sub are computed as the code computes   *)
(* them.  A mapping (dict) is a TLA+ function; None as a gender label is   *)
(* the string "None", which is also what the f-string of report_gender     *)
(* makes of it.                                                            *)
(***************************************************************************)
EXTENDS Integers, Sequences, FiniteSets, TLC

VARIABLES
    \* ---- the environment of a run of main
    bibIds,        \* re.findall(r"@\w+\{(.*?),", bibstr)          (line 113)
    authorLists,   \* re.findall(r"author\s=\s+\{(.*?)\}", ...)     (line 111)
    apiKey,        \* os.getenv("GENDER_API_KEY") is not None      (line 153)
    fileExists,    \* (BIBBIAS_CACHE_PATH / "names.cache").exists()
    file,          \* the mapping stored in names.cache
    \* ---- main
    pc,            \* position of the run
    resolved,      \* main's `resolved` (find_gender's `data`)
    missed,        \* main's `missed`
    genderReport,  \* main's `gender_report`
    statsReport,   \* main's `df`, the result of compute_gender_stats
    \* ---- query_names
    cached,        \* query_names' `cached`
    misses,        \* the part of sorted `misses` not yet iterated
    responses,     \* query_names' `responses`
    \* ---- observation of the run (not program state)
    run,           \* number of the current run of main
    fgCalls,       \* calls of find_gender in this run
    qnCalls,       \* calls of query_names in this run
    queried,       \* names for which requests.get was issued, in order
    writes,        \* writes of names.cache in this run
    missed1,       \* the missed set of pass 1
    resolved1,     \* the resolved records of pass 1
    cached0,       \* the mapping query_names loaded
    allMisses,     \* the whole sorted `misses` of query_names
    learned,       \* names some lookup answered ok with accuracy >= 60
    lowConf,       \* names answered ok with accuracy < 60 and not learned since
    \* ---- normalization taken alone
    raw,           \* a raw author string
    norm1,         \* its normalization
    norm2,         \* the normalization of norm1
    npc,
    \* ---- query_names called directly, by one process or by two
    procs          \* per process: the locals of its query_names call

vars == << bibIds, authorLists, apiKey, fileExists, file, pc, resolved, missed,
           genderReport, statsReport, resolved1, cached, misses, responses, run, fgCalls, qnCalls,
           queried, writes, missed1, cached0, allMisses, learned, lowConf,
           raw, norm1, norm2, npc, procs >>

mainVars == << bibIds, authorLists, apiKey, fileExists, file, pc, resolved, missed,
               genderReport, statsReport, resolved1, cached, misses, responses, run, fgCalls, qnCalls,
               queried, writes, missed1, cached0, allMisses, learned, lowConf >>

normVars == << raw, norm1, norm2, npc >>

-----------------------------------------------------------------------------
(* Characters *)

UpperChars == << "A","B","C","D","E","F","G","H","I","J","K","L","M",
                 "N","O","P","Q","R","S","T","U","V","W","X","Y","Z" >>

LowerChars == << "a","b","c","d","e","f","g","h","i","j","k","l","m",
                 "n","o","p","q","r","s","t","u","v","w","x","y","z" >>

\* The characters in code-point order (the order sorted() compares by).
CodeOrder == << "\n", " ", ",", "-", "." >> \o UpperChars \o << "_" >> \o LowerChars

Range(s) == { s[i] : i \in 1..Len(s) }

UpperSet == Range(UpperChars)

WordChars == Range(UpperChars) \cup Range(LowerChars) \cup { "_" }

\* The code point order as a table: the rank of each character
OrdTable == [ c \in Range(CodeOrder) |->
                CHOOSE i \in 1..Len(CodeOrder) : CodeOrder[i] = c ]

\* str.lower() as a table over the upper-case letters
LowerTable == [ c \in UpperSet |->
                  LowerChars[CHOOSE i \in 1..Len(UpperChars) : UpperChars[i] = c] ]

Ord(c) == OrdTable[c]

\* \s of the regular expressions, and the whitespace of str.strip()
IsSpace(c) == c \in { " ", "\n" }

\* \w of the regular expressions
IsWord(c) == c \in WordChars

\* str.lower() on one character
LowerChar(c) == IF c \in UpperSet THEN LowerTable[c] ELSE c

Min(S) == CHOOSE x \in S : \A y \in S : x <= y
Max(S) == CHOOSE x \in S : \A y \in S : x >= y

-----------------------------------------------------------------------------
(* String functions of find_gender *)

\* str.lower()
LowerStr(s) == [ i \in 1..Len(s) |-> LowerChar(s[i]) ]

RECURSIVE SkipSpace(_, _)
\* First index >= i of s that holds no whitespace (Len(s)+1 when none).
SkipSpace(s, i) ==
    IF i > Len(s) \/ ~IsSpace(s[i]) THEN i ELSE SkipSpace(s, i + 1)

\* str.strip()
Strip(s) ==
    LET a == SkipSpace(s, 1)
    IN  IF a > Len(s) THEN << >>
        ELSE SubSeq(s, a, Max({ j \in 1..Len(s) : ~IsSpace(s[j]) }))

\* s.split(",")[0]: the token before the first comma
FirstCommaToken(s) ==
    LET cs == { i \in 1..Len(s) : s[i] = "," }
    IN  IF cs = {} THEN s ELSE SubSeq(s, 1, Min(cs) - 1)

\* s.split(",")[-1]
LastCommaToken(s) ==
    LET cs == { i \in 1..Len(s) : s[i] = "," }
    IN  IF cs = {} THEN s ELSE SubSeq(s, Max(cs) + 1, Len(s))

\* A match of \s*\w\. without the trailing \s*: leaves the whitespace after
\* the initial in place.
MatchEndNoTrail(s, i) ==
    LET j == SkipSpace(s, i)
    IN  IF j + 1 <= Len(s) /\ IsWord(s[j]) /\ s[j + 1] = "."
        THEN j + 2
        ELSE 0

\* Where a match of \s*\w\.\s* starting at index i ends (the index after
\* it), 0 when the pattern does not match at i.  \s* is greedy and a
\* whitespace character is no \w, so only the whole run of whitespace can
\* precede the \w.
MatchEnd(s, i) ==
    LET j == SkipSpace(s, i)
    IN  IF j + 1 <= Len(s) /\ IsWord(s[j]) /\ s[j + 1] = "."
        THEN SkipSpace(s, j + 2)
        ELSE 0

RECURSIVE SubFrom(_, _)
\* re.sub from index i on: leftmost matches, left to right, not overlapping
SubFrom(s, i) ==
    IF i > Len(s) THEN << >>
    ELSE LET e == MatchEnd(s, i)
         IN  IF e # 0 THEN SubFrom(s, e)
             ELSE << s[i] >> \o SubFrom(s, i + 1)

\* strip_initial.sub("", s)
StripInitial(s) == SubFrom(s, 1)

\* strip_initial.sub("", a.strip().split(",")[-1].strip().lower())
NormalizeName(a) == StripInitial(LowerStr(Strip(LastCommaToken(Strip(a)))))

-----------------------------------------------------------------------------
(* Normalization taken alone: every raw string up to MaxLen characters *)

MaxLen == 4

NormAlphabet == { "a", "B", ".", " ", ",", "-" }

RawStrings == UNION { [ 1..n -> NormAlphabet ] : n \in 0..MaxLen }

Idle == << "-" >>

\* The processes that may call query_names on the same names.cache
Procs == { "p1", "p2" }

\* A process that makes no call
CallOff ==
    [ pc |-> "off", nameset |-> {}, cached |-> << >>, cached0 |-> << >>,
      misses |-> << >>, queried |-> << >>, writes |-> 0, calls |-> 0,
      last |-> FALSE ]

NoCalls == [ p \in Procs |-> CallOff ]

MainIdle ==
    /\ procs = NoCalls
    /\ bibIds = << >> /\ authorLists = << >> /\ apiKey = FALSE
    /\ fileExists = FALSE /\ file = << >> /\ pc = "off"
    /\ resolved = << >> /\ missed = {} /\ genderReport = << >>
    /\ statsReport = << >> /\ resolved1 = << >>
    /\ cached = << >> /\ misses = << >> /\ responses = << >>
    /\ run = 0 /\ fgCalls = 0 /\ qnCalls = 0 /\ queried = << >> /\ writes = 0
    /\ missed1 = {} /\ cached0 = << >> /\ allMisses = << >>
    /\ learned = {} /\ lowConf = {}

NormInit ==
    /\ MainIdle
    /\ raw \in RawStrings
    /\ norm1 = Idle /\ norm2 = Idle
    /\ npc = "raw"

Normalize1 ==
    /\ npc = "raw"
    /\ norm1' = NormalizeName(raw)
    /\ npc' = "once"
    /\ UNCHANGED << raw, norm2 >>
    /\ UNCHANGED << mainVars, procs >>

Normalize2 ==
    /\ npc = "once"
    /\ norm2' = NormalizeName(norm1)
    /\ npc' = "twice"
    /\ UNCHANGED << raw, norm1 >>
    /\ UNCHANGED << mainVars, procs >>

NormNext == Normalize1 \/ Normalize2

SpecNorm == NormInit /\ [][NormNext]_vars

-----------------------------------------------------------------------------
(* find_gender *)

SepAnd == << " ", "a", "n", "d" >>

\* m.replace("\n", " ")
ReplaceNewline(s) == [ i \in 1..Len(s) |-> IF s[i] = "\n" THEN " " ELSE s[i] ]

\* Whether sep occurs in s at index i
OccursAt(s, sep, i) ==
    /\ i + Len(sep) - 1 <= Len(s)
    /\ \A k \in 1..Len(sep) : s[i + k - 1] = sep[k]

RECURSIVE SplitAnd(_)
\* authors.split(" and")
SplitAnd(s) ==
    LET hits == { i \in 1..Len(s) : OccursAt(s, SepAnd, i) }
    IN  IF hits = {} THEN << s >>
        ELSE LET i == Min(hits)
             IN  << SubSeq(s, 1, i - 1) >>
                 \o SplitAnd(SubSeq(s, i + Len(SepAnd), Len(s)))

\* authlst[0] cut down to what precedes its first comma
FirstAuthorSurname(authlst) == FirstCommaToken(authlst[1])

\* authlst[0]
FirstAuthor(authlst) == authlst[1]

\* authlst[-1]
LastAuthor(authlst) == authlst[Len(authlst)]

\* cached.get(name, None)
Get(mapping, name) ==
    IF name \in DOMAIN mapping THEN mapping[name] ELSE "None"

\* The cache file as json.loads reads it, {} when there is no file
\* (lines 116-119 of find_gender, lines 142-146 of query_names)
LoadCache == IF fileExists THEN file ELSE << >>

\* The value of data[bid] for one author field (lines 124-130)
AuthorPair(authors, mapping) ==
    LET authlst == SplitAnd(authors)
        first   == NormalizeName(FirstAuthor(authlst))
        last    == NormalizeName(LastAuthor(authlst))
    IN  << << first, Get(mapping, first) >>, << last, Get(mapping, last) >> >>

\* author_lists (line 112)
AuthorFields(authors) == [ i \in 1..Len(authors) |-> ReplaceNewline(authors[i]) ]

\* Number of pairs zip(bib_id, author_lists) yields (line 123)
ZipLen(ids, authors) == IF Len(ids) <= Len(authors) THEN Len(ids) ELSE Len(authors)

\* missed.add(f) for the first author only
MissedOfPairFirstOnly(pair) ==
    IF pair[1][2] = "None" THEN { pair[1][1] } ELSE {}

\* The names lines 132-134 add to `missed` for one data[bid]
MissedOfPair(pair) == { pair[k][1] : k \in { j \in 1..2 : pair[j][2] = "None" } }

\* find_gender(bibstr, cached): `data` and `missed` (lines 121-136).  A
\* citation key that occurs twice keeps the pair of its last occurrence,
\* as the assignment data[bid] = ... overwrites.
FindGender(ids, authors, mapping) ==
    LET n     == ZipLen(ids, authors)
        lists == AuthorFields(authors)
        pairs == [ i \in 1..n |-> AuthorPair(lists[i], mapping) ]
        keys  == { ids[i] : i \in 1..n }
    IN  [ data   |-> [ b \in keys |->
                         pairs[Max({ i \in 1..n : ids[i] = b })] ],
          missed |-> UNION { MissedOfPair(pairs[i]) : i \in 1..n } ]

-----------------------------------------------------------------------------
(* report_gender *)

Labels == { "M", "F", "None" }

\* product(("M", "F", "None"), repeat=2), joined
Categories == { a \o b : a \in Labels, b \in Labels }

\* A bucket that takes the first author's label twice
BucketOfFirstTwice(pair) == pair[1][2] \o pair[1][2]

\* f"{first[1]}{last[1]}"
BucketOf(pair) == pair[1][2] \o pair[2][2]

RECURSIVE ReportFold(_, _, _)
\* The loop of lines 180-181 over the records of `keys`
ReportFold(data, keys, retval) ==
    IF keys = {} THEN retval
    ELSE LET b == CHOOSE k \in keys : TRUE
             c == BucketOf(data[b])
         IN  ReportFold(data, keys \ { b },
                        [ retval EXCEPT ![c] = retval[c] + 1 ])

\* report_gender(data)
ReportGenderOf(data) ==
    ReportFold(data, DOMAIN data, [ c \in Categories |-> 0 ])

-----------------------------------------------------------------------------
(* compute_gender_stats *)

RECURSIVE RowSum(_, _)
\* df.sum(axis=1).iloc[0]: the sum of the row's counts
RowSum(report, cats) ==
    IF cats = {} THEN 0
    ELSE LET c == CHOOSE k \in cats : TRUE
         IN  report[c] + RowSum(report, cats \ { c })

\* A division that raises on a zero divisor, as Python's int / int does
DivideRaising(count, total) ==
    IF total = 0
    THEN [ kind |-> "fault", num |-> 0, den |-> 0 ]
    ELSE [ kind |-> "num", num |-> count, den |-> total ]

\* A ratio over the number of categories in place of the total
DivideByCategories(count, total) ==
    IF total = 0
    THEN [ kind |-> "nan", num |-> 0, den |-> 0 ]
    ELSE [ kind |-> "num", num |-> count, den |-> Cardinality(Categories) ]

\* One element of df.iloc[0] / total (line 220).  The division is pandas'
\* on a Series: it raises nothing, 0 / 0 is NaN and count / 0 is inf; a
\* quotient is kept as the fraction count / total, which the float holds
\* to within one rounding.
Divide(count, total) ==
    IF total = 0
    THEN [ kind |-> IF count = 0 THEN "nan" ELSE "inf", num |-> 0, den |-> 0 ]
    ELSE [ kind |-> "num", num |-> count, den |-> total ]

\* compute_gender_stats(df): the Ratio of each Category
ComputeGenderStats(report) ==
    LET total == RowSum(report, DOMAIN report)
    IN  [ c \in DOMAIN report |-> Divide(report[c], total) ]

\* The division raised
Faulted(stats) == \E c \in DOMAIN stats : stats[c].kind = "fault"

-----------------------------------------------------------------------------
(* query_names *)

\* Python's order on strings: by code point, a proper prefix first
StrLess(a, b) ==
    \E k \in 1..(Len(a) + 1) :
        /\ k <= Len(b)
        /\ \A j \in 1..(k - 1) : a[j] = b[j]
        /\ \/ k = Len(a) + 1
           \/ Ord(a[k]) < Ord(b[k])

RECURSIVE SortedSeq(_)
\* sorted(S)
SortedSeq(S) ==
    IF S = {} THEN << >>
    ELSE LET m == CHOOSE x \in S : \A y \in S \ { x } : StrLess(x, y)
         IN  << m >> \o SortedSeq(S \ { m })

\* A `misses` that takes every requested name
MissesOfAll(nameset, mapping) == SortedSeq(nameset)

\* sorted(set(nameset) - set(cached.keys()))   (line 147)
MissesOf(nameset, mapping) == SortedSeq(nameset \ DOMAIN mapping)

Threshold == 60

\* An acceptance test that leaves the threshold itself out
AcceptsStrictly(accuracy) == accuracy > Threshold

\* int(responses[n]["accuracy"]) >= 60   (line 166)
Accepts(accuracy) == accuracy >= Threshold

\* The reported gender stored as it came
LabelOfRaw(gender) == gender

\* "F" if responses[n]["gender"] == "female" else "M"   (line 167)
LabelOf(gender) == IF gender = "female" THEN "F" ELSE "M"

\* An assignment that starts the mapping afresh
UpdatedAlone(mapping, n, label) == (n :> label)

\* cached[n] = label   (line 167): the other entries stay
Updated(mapping, n, label) == (n :> label) @@ mapping

\* A write that keeps what the file held next to the given mapping
WrittenMerged(mapping, old) == mapping @@ old

\* write_text(json.dumps(cached, indent=2))   (line 170): the file holds the
\* given mapping and nothing of what it held
Written(mapping, old) == mapping

\* A query_names that goes on to the lookups without a credential
ReturnsEarlyIgnoringKey(ms, key) == ms = << >>

\* The early returns of lines 149-156: nothing is missing, or no credential
ReturnsEarly(ms, key) == ms = << >> \/ ~key

\* What one requests.get and the reading of its answer can come to:
\*   "raise": requests.get, q.json(), ["accuracy"] or int() raises
\*   "notok": q.ok is false
\*   "ok":    q.ok, with a gender and an accuracy
Genders == { "female", "male" }

Accuracies == { 59, 60, 61 }

Outcomes ==
    { [ kind |-> k, gender |-> "male", accuracy |-> 0 ] : k \in { "raise", "notok" } }
    \cup { [ kind |-> "ok", gender |-> g, accuracy |-> a ] :
             g \in Genders, a \in Accuracies }

-----------------------------------------------------------------------------
(* The inputs of the runs *)

AuthDoeRoe ==
    << "D", "o", "e", ",", " ", "J", ".", " ", "a", "n", "d", " ",
       "R", "o", "e", ",", " ", "A", "." >>

AuthSmith == << "S", "m", "i", "t", "h", ",", " ", "K", "." >>

AuthThree ==
    << "D", "o", "e", ",", " ", "A", "n", "n", " ", "a", "n", "d", " ",
       "P", "o", "e", ",", " ", "A", "l", " ", "a", "n", "d", " ",
       "R", "o", "e", ",", " ", "B", "o", "b" >>

AuthEve == << "L", "e", "e", ",", " ", "E", "v", "e" >>

AuthAnn == << "D", "o", "e", ",", " ", "A", "n", "n" >>

AuthBob == << "R", "o", "e", ",", " ", "B", "o", "b" >>

AuthMixed ==
    << "A", "n", "n", " ", "L", "e", "e", " ", "a", "n", "d", "\n",
       "R", "o", "e", ",", " ", "B", ".", " ", "B", "o", "b" >>

NameEmpty == << >>
NameDoe == << "d", "o", "e" >>
NameRoe == << "r", "o", "e" >>
NameSmith == << "s", "m", "i", "t", "h" >>
NameAnn == << "a", "n", "n" >>
NameBob == << "b", "o", "b" >>
NameEve == << "e", "v", "e" >>
NameAnnLee == << "a", "n", "n", " ", "l", "e", "e" >>

\* The citation keys and the author fields the two findall calls of
\* find_gender (lines 111 and 113) get from a bibliography text
BibDoeSmith ==
    [ ids |-> << "doe2020", "smith2021" >>, authors |-> << AuthDoeRoe, AuthSmith >> ]

BibThree ==
    [ ids |-> << "three2020", "eve2021" >>, authors |-> << AuthThree, AuthEve >> ]

\* one citation key used by two records
BibDup ==
    [ ids |-> << "dup2020", "dup2020" >>, authors |-> << AuthAnn, AuthBob >> ]

\* a record without an author field
BibShort ==
    [ ids |-> << "eve2021", "none2022" >>, authors |-> << AuthEve >> ]

BibEmpty == [ ids |-> << >>, authors |-> << >> ]

BibMixed == [ ids |-> << "mixed2020" >>, authors |-> << AuthMixed >> ]

Bibliographies == { BibDoeSmith, BibThree, BibDup, BibShort, BibEmpty, BibMixed }

CacheDoeRoe == [ n \in { NameDoe, NameRoe } |-> IF n = NameDoe THEN "M" ELSE "F" ]

CacheAnn == [ n \in { NameAnn } |-> "F" ]

CacheAll == [ n \in { NameAnn, NameBob, NameEve } |-> IF n = NameBob THEN "M" ELSE "F" ]

\* names.cache before the first run: absent, or one of these mappings
InitialCaches == { CacheDoeRoe, CacheAnn, CacheAll }

MaxRuns == 2

-----------------------------------------------------------------------------
(* main *)

NormIdle == raw = Idle /\ norm1 = Idle /\ norm2 = Idle /\ npc = "off"

\* The values a run starts from
RunStart ==
    /\ pc' = "pass1"
    /\ resolved' = << >> /\ missed' = {} /\ genderReport' = << >>
    /\ statsReport' = << >> /\ resolved1' = << >>
    /\ cached' = << >> /\ misses' = << >> /\ responses' = << >>
    /\ fgCalls' = 0 /\ qnCalls' = 0 /\ queried' = << >> /\ writes' = 0
    /\ missed1' = {} /\ cached0' = << >> /\ allMisses' = << >>

Init ==
    /\ NormIdle
    /\ procs = NoCalls
    /\ \E b \in Bibliographies : bibIds = b.ids /\ authorLists = b.authors
    /\ apiKey \in BOOLEAN
    /\ \/ fileExists = FALSE /\ file = << >>
       \/ fileExists = TRUE /\ file \in InitialCaches
    /\ pc = "pass1"
    /\ resolved = << >> /\ missed = {} /\ genderReport = << >>
    /\ statsReport = << >> /\ resolved1 = << >>
    /\ cached = << >> /\ misses = << >> /\ responses = << >>
    /\ run = 1 /\ fgCalls = 0 /\ qnCalls = 0 /\ queried = << >> /\ writes = 0
    /\ missed1 = {} /\ cached0 = << >> /\ allMisses = << >>
    /\ learned = {} /\ lowConf = {}

\* The mapping find_gender resolves against (lines 116-119): the cache file
\* when it is called without one, the given mapping otherwise
CachedArg(isNone, arg) == IF isNone THEN LoadCache ELSE arg

\* A gate that is always taken
GateAlways(m) == TRUE

\* line 81: `if missed:`
Gate(m) == m # {}

\* line 79: resolved, missed = find_gender(bibstr)
Pass1 ==
    /\ pc = "pass1"
    /\ LET r == FindGender(bibIds, authorLists, CachedArg(TRUE, << >>))
       IN  /\ resolved' = r.data
           /\ missed' = r.missed
           /\ missed1' = r.missed
           /\ resolved1' = r.data
    /\ fgCalls' = fgCalls + 1
    /\ pc' = "gate"
    /\ UNCHANGED << statsReport, bibIds, authorLists, apiKey, fileExists, file, genderReport,
                    cached, misses, responses, run, qnCalls, queried, writes,
                    cached0, allMisses, learned, lowConf >>
    /\ UNCHANGED << normVars, procs >>

\* line 81, `missed` empty: straight to the report
GateSkip ==
    /\ pc = "gate"
    /\ ~Gate(missed)
    /\ pc' = "report"
    /\ UNCHANGED << statsReport, resolved1, bibIds, authorLists, apiKey, fileExists, file, resolved, missed,
                    genderReport, cached, misses, responses, run, fgCalls, qnCalls,
                    queried, writes, missed1, cached0, allMisses, learned, lowConf >>
    /\ UNCHANGED << normVars, procs >>

\* line 81, `missed` not empty, and lines 142-158 of query_names(missed)
QueryNamesLoad ==
    /\ pc = "gate"
    /\ Gate(missed)
    /\ qnCalls' = qnCalls + 1
    /\ cached' = LoadCache
    /\ cached0' = LoadCache
    /\ LET ms == MissesOf(missed, LoadCache)
       IN  /\ allMisses' = ms
           /\ IF ReturnsEarly(ms, apiKey)
              THEN pc' = "pass2" /\ misses' = << >>
              ELSE pc' = "lookup" /\ misses' = ms
    /\ responses' = << >>
    /\ UNCHANGED << statsReport, resolved1, bibIds, authorLists, apiKey, fileExists, file, resolved, missed,
                    genderReport, run, fgCalls, queried, writes, missed1, learned, lowConf >>
    /\ UNCHANGED << normVars, procs >>

\* One iteration of the loop of lines 161-167, for the next name of `misses`
Lookup ==
    /\ pc = "lookup"
    /\ misses # << >>
    /\ LET n == Head(misses)
       IN  \E out \in Outcomes :
             /\ queried' = Append(queried, n)
             /\ IF out.kind = "raise"
                THEN \* the exception leaves query_names and main
                     /\ pc' = "crashed"
                     /\ UNCHANGED << cached, misses, responses, learned, lowConf >>
                ELSE /\ pc' = "lookup"
                     /\ misses' = Tail(misses)
                     /\ IF out.kind = "notok"
                        THEN UNCHANGED << cached, responses, learned, lowConf >>
                        ELSE /\ responses' = (n :> out) @@ responses
                             /\ IF Accepts(out.accuracy)
                                THEN /\ cached' = Updated(cached, n, LabelOf(out.gender))
                                     /\ learned' = learned \cup { n }
                                     /\ lowConf' = lowConf \ { n }
                                ELSE /\ lowConf' = lowConf \cup { n }
                                     /\ UNCHANGED << cached, learned >>
    /\ UNCHANGED << statsReport, resolved1, bibIds, authorLists, apiKey, fileExists, file, resolved, missed,
                    genderReport, run, fgCalls, qnCalls, writes, missed1, cached0,
                    allMisses >>
    /\ UNCHANGED << normVars, procs >>

\* lines 169-173: the loop is over, write names.cache and return `cached`;
\* `responses` ends with the call
StoreCache ==
    /\ pc = "lookup"
    /\ misses = << >>
    /\ file' = Written(cached, file)
    /\ fileExists' = TRUE
    /\ writes' = writes + 1
    /\ responses' = << >>
    /\ pc' = "pass2"
    /\ UNCHANGED << statsReport, resolved1, bibIds, authorLists, apiKey, resolved, missed, genderReport,
                    cached, misses, run, fgCalls, qnCalls, queried,
                    missed1, cached0, allMisses, learned, lowConf >>
    /\ UNCHANGED << normVars, procs >>

\* line 82: resolved, missed = find_gender(bibstr, <what query_names returned>)
Pass2 ==
    /\ pc = "pass2"
    /\ LET r == FindGender(bibIds, authorLists, CachedArg(FALSE, cached))
       IN  /\ resolved' = r.data
           /\ missed' = r.missed
    /\ fgCalls' = fgCalls + 1
    /\ pc' = "report"
    /\ UNCHANGED << statsReport, resolved1, bibIds, authorLists, apiKey, fileExists, file, genderReport,
                    cached, misses, responses, run, qnCalls, queried, writes,
                    missed1, cached0, allMisses, learned, lowConf >>
    /\ UNCHANGED << normVars, procs >>

\* lines 84-105: gender_report = report_gender(resolved), the tables written,
\* df = compute_gender_stats(df_gender)
ReportGender ==
    /\ pc = "report"
    /\ genderReport' = ReportGenderOf(resolved)
    /\ LET stats == ComputeGenderStats(ReportGenderOf(resolved))
       IN  IF Faulted(stats)
           THEN statsReport' = << >> /\ pc' = "crashed"
           ELSE statsReport' = stats /\ pc' = "done"
    /\ UNCHANGED << resolved1, bibIds, authorLists, apiKey, fileExists, file, resolved, missed,
                    cached, misses, responses, run, fgCalls, qnCalls, queried,
                    writes, missed1, cached0, allMisses, learned, lowConf >>
    /\ UNCHANGED << normVars, procs >>

\* The tool is run again, on some bibliography, with or without a credential;
\* names.cache is what the runs before left
NextRun ==
    /\ pc \in { "done", "crashed" }
    /\ run < MaxRuns
    /\ run' = run + 1
    /\ \E b \in Bibliographies : bibIds' = b.ids /\ authorLists' = b.authors
    /\ apiKey' \in BOOLEAN
    /\ RunStart
    /\ UNCHANGED << fileExists, file, learned, lowConf >>
    /\ UNCHANGED << normVars, procs >>

Next ==
    \/ Pass1
    \/ GateSkip
    \/ QueryNamesLoad
    \/ Lookup
    \/ StoreCache
    \/ Pass2
    \/ ReportGender
    \/ NextRun

Spec == Init /\ [][Next]_vars

-----------------------------------------------------------------------------
(* compute_gender_stats taken alone: every report with counts up to MaxCount *)

MaxCount == 1

StatsInit ==
    /\ NormIdle
    /\ procs = NoCalls
    /\ bibIds = << >> /\ authorLists = << >> /\ apiKey = FALSE
    /\ fileExists = FALSE /\ file = << >> /\ pc = "stats"
    /\ resolved = << >> /\ missed = {}
    /\ genderReport \in [ Categories -> 0..MaxCount ]
    /\ statsReport = << >> /\ resolved1 = << >>
    /\ cached = << >> /\ misses = << >> /\ responses = << >>
    /\ run = 0 /\ fgCalls = 0 /\ qnCalls = 0 /\ queried = << >> /\ writes = 0
    /\ missed1 = {} /\ cached0 = << >> /\ allMisses = << >>
    /\ learned = {} /\ lowConf = {}

\* line 104: df = compute_gender_stats(df_gender)
ComputeStats ==
    /\ pc = "stats"
    /\ LET stats == ComputeGenderStats(genderReport)
       IN  IF Faulted(stats)
           THEN statsReport' = << >> /\ pc' = "crashed"
           ELSE statsReport' = stats /\ pc' = "statsdone"
    /\ UNCHANGED << bibIds, authorLists, apiKey, fileExists, file, resolved, missed,
                    genderReport, resolved1, cached, misses, responses, run,
                    fgCalls, qnCalls, queried, writes, missed1, cached0,
                    allMisses, learned, lowConf >>
    /\ UNCHANGED << normVars, procs >>

SpecStats == StatsInit /\ [][ComputeStats]_vars

-----------------------------------------------------------------------------
(* query_names called directly: by one process, call after call (SpecQuery), *)
(* or by two processes on the same names.cache (SpecConc)                    *)

MaxCalls == 2

\* The namesets a call is given
QueryNamesets == SUBSET { NameAnn, NameBob }

\* A process that has not called yet
CallIdle == [ CallOff EXCEPT !.pc = "idle" ]

QueryInit(active) ==
    /\ NormIdle
    /\ bibIds = << >> /\ authorLists = << >>
    /\ apiKey \in BOOLEAN
    /\ \/ fileExists = FALSE /\ file = << >>
       \/ fileExists = TRUE /\ file = CacheAnn
    /\ pc = "off"
    /\ resolved = << >> /\ missed = {} /\ genderReport = << >>
    /\ statsReport = << >> /\ resolved1 = << >>
    /\ cached = << >> /\ misses = << >> /\ responses = << >>
    /\ run = 0 /\ fgCalls = 0 /\ qnCalls = 0 /\ queried = << >> /\ writes = 0
    /\ missed1 = {} /\ cached0 = << >> /\ allMisses = << >>
    /\ learned = {} /\ lowConf = {}
    /\ procs = [ p \in Procs |-> IF p \in active THEN CallIdle ELSE CallOff ]

QueryFrame ==
    UNCHANGED << bibIds, authorLists, apiKey, pc, resolved, missed, genderReport,
                 statsReport, resolved1, cached, misses, responses, run, fgCalls,
                 qnCalls, queried, writes, missed1, cached0, allMisses, lowConf,
                 normVars >>

\* lines 142-158: query_names(nameset) loads the file, computes `misses` and
\* returns early, or goes on to the lookups
QnCall(p) ==
    /\ procs[p].pc \in { "idle", "returned", "raised" }
    /\ procs[p].calls < MaxCalls
    /\ \E ns \in QueryNamesets :
         LET ms == MissesOf(ns, LoadCache)
         IN  procs' = [ procs EXCEPT ![p] =
                 [ pc |-> IF ReturnsEarly(ms, apiKey) THEN "returned" ELSE "lookup",
                   nameset |-> ns, cached |-> LoadCache, cached0 |-> LoadCache,
                   misses |-> IF ReturnsEarly(ms, apiKey) THEN << >> ELSE ms,
                   queried |-> << >>, writes |-> 0, calls |-> @.calls + 1,
                   last |-> FALSE ] ]
    /\ UNCHANGED << file, fileExists, learned >>
    /\ QueryFrame

\* One iteration of the loop of lines 161-167 in process p
QnLookup(p) ==
    /\ procs[p].pc = "lookup"
    /\ procs[p].misses # << >>
    /\ LET n == Head(procs[p].misses)
       IN  \E out \in Outcomes :
             IF out.kind = "raise"
             THEN /\ procs' = [ procs EXCEPT ![p].pc = "raised",
                                             ![p].queried = Append(@, n) ]
                  /\ UNCHANGED learned
             ELSE IF out.kind = "ok" /\ Accepts(out.accuracy)
             THEN /\ procs' = [ procs EXCEPT
                                  ![p].misses = Tail(@),
                                  ![p].queried = Append(@, n),
                                  ![p].cached = Updated(@, n, LabelOf(out.gender)) ]
                  /\ learned' = learned \cup { n }
             ELSE /\ procs' = [ procs EXCEPT ![p].misses = Tail(@),
                                             ![p].queried = Append(@, n) ]
                  /\ UNCHANGED learned
    /\ UNCHANGED << file, fileExists >>
    /\ QueryFrame

\* lines 169-173 in process p: write names.cache and return `cached`
QnStore(p) ==
    /\ procs[p].pc = "lookup"
    /\ procs[p].misses = << >>
    /\ file' = Written(procs[p].cached, file)
    /\ fileExists' = TRUE
    /\ procs' = [ q \in Procs |->
                    IF q = p
                    THEN [ procs[q] EXCEPT !.pc = "returned", !.writes = @ + 1,
                                           !.last = TRUE ]
                    ELSE [ procs[q] EXCEPT !.last = FALSE ] ]
    /\ UNCHANGED learned
    /\ QueryFrame

QueryNext == \E p \in Procs : QnCall(p) \/ QnLookup(p) \/ QnStore(p)

\* One process, one call after the other
SpecQuery == QueryInit({ "p1" }) /\ [][QueryNext]_vars

\* Two processes whose calls interleave
SpecConc == QueryInit(Procs) /\ [][QueryNext]_vars

-----------------------------------------------------------------------------
(* Properties *)

RECURSIVE SumOver(_, _)
SumOver(f, S) ==
    IF S = {} THEN 0
    ELSE LET x == CHOOSE y \in S : TRUE IN f[x] + SumOver(f, S \ { x })

\* The run is past its first find_gender
AfterPass1 == pc \in { "gate", "lookup", "pass2", "report", "done", "crashed" }

\* query_names has returned to main
Returned == qnCalls = 1 /\ pc \in { "pass2", "report", "done" }

\* Names whose request was issued and that got no usable answer: the answer
\* was not ok, or the lookup raised (meaningful while `responses` lives)
FailedNames == Range(queried) \ DOMAIN responses

\* C1 (cache monotonicity): whenever no query_names call is under way, every
\* name a lookup answered ok with accuracy >= 60 is a key of names.cache as
\* the next load reads it, whatever became of the other names of its batch.
C1_CacheMonotonic ==
    pc # "lookup" => learned \subseteq DOMAIN LoadCache

\* C2 (per-name failure isolation): a failing lookup never aborts the batch:
\* the run is not ended by it, and when query_names has gone through the
\* lookups every missing name was queried, in order, and the cache written.
C2_FailureIsolation ==
    /\ pc # "crashed"
    /\ (Returned /\ apiKey) => (queried = allMisses /\ writes = 1)

\* C3 (no-credential no-op): without a credential and with names missing,
\* query_names issues no lookup, raises nothing, leaves names.cache alone
\* and returns the mapping it loaded, which is the cache file's.
C3_NoCredentialNoOp ==
    (~apiKey /\ AfterPass1) =>
        /\ pc # "crashed"
        /\ queried = << >>
        /\ writes = 0
        /\ Returned => /\ allMisses # << >>
                       /\ cached = cached0
                       /\ cached = LoadCache

C3_Witness ==
    /\ ~apiKey /\ pc = "pass2" /\ qnCalls = 1
    /\ Len(allMisses) = 2 /\ cached = CacheAnn

\* C4 (two-pass protocol): find_gender runs once or twice and never a third
\* time, query_names at most once and exactly when pass 1 missed a name;
\* once it has returned, pass 2 runs once, on the mapping it returned, and
\* a name still missed is reported with the label None.
C4_TwoPass ==
    /\ fgCalls <= 2 /\ qnCalls <= 1
    /\ pc = "gate" => (fgCalls = 1 /\ qnCalls = 0)
    /\ pc \in { "lookup", "pass2", "report", "done", "crashed" }
          => (qnCalls = 1 <=> missed1 # {})
    /\ pc \in { "lookup", "pass2", "crashed" } => (fgCalls = 1 /\ qnCalls = 1)
    /\ pc \in { "report", "done" } =>
          /\ fgCalls = (IF missed1 # {} THEN 2 ELSE 1)
          /\ qnCalls = 1 =>
                \A b \in DOMAIN resolved : \A k \in 1..2 :
                    resolved[b][k][2] =
                        (IF resolved[b][k][1] \in DOMAIN cached
                         THEN cached[resolved[b][k][1]] ELSE "None")
          /\ \A b \in DOMAIN resolved : \A k \in 1..2 :
                resolved[b][k][1] \in missed => resolved[b][k][2] = "None"

C4_Witness ==
    /\ pc = "done" /\ fgCalls = 2 /\ qnCalls = 1 /\ writes = 1
    /\ missed = { NameEve }
    /\ NameAnn \in missed1 /\ NameAnn \in DOMAIN cached

\* C5 (confidence threshold): a name whose lookup succeeded has a cache
\* entry exactly when the accuracy was >= 60, "F" for the gender female and
\* "M" for any other; names.cache is written as that mapping; a name answered
\* below 60 is not in the cache file and is a name to look up in a later run
\* that misses it.
C5_Threshold ==
    /\ pc \in { "lookup", "crashed" } =>
          \A n \in DOMAIN responses :
              /\ n \notin DOMAIN cached0
              /\ n \in DOMAIN cached <=> responses[n].accuracy >= 60
              /\ n \in DOMAIN cached =>
                    cached[n] = (IF responses[n].gender = "female" THEN "F" ELSE "M")
    /\ (Returned /\ writes = 1) => (fileExists /\ file = cached)
    /\ pc # "lookup" => lowConf \cap DOMAIN LoadCache = {}
    /\ (pc \in { "lookup", "pass2", "report", "done" } /\ qnCalls = 1 /\ apiKey) =>
          \A n \in lowConf \cap missed1 : n \in Range(allMisses)

C5_Witness ==
    /\ run = 2 /\ pc = "lookup" /\ misses = << >>
    /\ NameAnn \in lowConf /\ NameAnn \in Range(queried)
    /\ NameBob \in DOMAIN responses /\ responses[NameBob].accuracy = 60
    /\ cached[NameBob] = "M"

\* C6 (report total): the nine counts of report_gender sum to the number of
\* resolved records, and each category counts exactly the records whose
\* first-author label followed by last-author label names it.
C6_ReportTotal ==
    pc = "done" =>
        /\ DOMAIN genderReport = Categories
        /\ SumOver(genderReport, Categories) = Cardinality(DOMAIN resolved)
        /\ \A c \in Categories :
              genderReport[c] =
                  Cardinality({ b \in DOMAIN resolved :
                                  resolved[b][1][2] \o resolved[b][2][2] = c })

C6_Witness ==
    /\ pc = "done"
    /\ Cardinality(DOMAIN resolved) = 2
    /\ genderReport["FM"] = 1 /\ genderReport["NoneNone"] = 1

\* The run of the two-pass convergence example is over: the two records
\* `Doe, J. and Roe, A.` and `Smith, K.`, the cache {"doe": "M", "roe": "F"},
\* no credential.
C7_Example ==
    /\ pc = "done"
    /\ bibIds = BibDoeSmith.ids /\ authorLists = BibDoeSmith.authors
    /\ ~apiKey
    /\ fileExists /\ file = CacheDoeRoe

FieldOf(b) ==
    Max({ i \in 1..ZipLen(bibIds, authorLists) : bibIds[i] = b })

\* The author field splits into one entry
SingleAuthor(field) == Len(SplitAnd(ReplaceNewline(field))) = 1

Diagonal == { "MM", "FF", "NoneNone" }

\* C8 (single-author record): a record whose author field holds one author
\* has the same normalized name and the same label as first and as last
\* author, and report_gender counts it in MM, FF or NoneNone: the records
\* counted off the diagonal are records with several authors.
C8_SingleAuthor ==
    /\ AfterPass1 =>
          \A b \in DOMAIN resolved :
              SingleAuthor(authorLists[FieldOf(b)]) =>
                  /\ resolved[b][1] = resolved[b][2]
                  /\ resolved[b][1][2] \o resolved[b][2][2] \in Diagonal
    /\ pc = "done" =>
          SumOver(genderReport, Categories \ Diagonal)
              <= Cardinality({ b \in DOMAIN resolved :
                                 ~SingleAuthor(authorLists[FieldOf(b)]) })

C8_Witness ==
    /\ pc = "done"
    /\ bibIds = BibThree.ids /\ authorLists = BibThree.authors
    /\ resolved["eve2021"] = << << NameEve, "F" >>, << NameEve, "F" >> >>
    /\ genderReport["FF"] = 1 /\ genderReport["FM"] = 1

\* A '.' followed, directly or after whitespace only, by another '.'
HasDotDot(s) ==
    \E i \in 1..Len(s) : \E j \in (i + 1)..Len(s) :
        /\ s[i] = "." /\ s[j] = "."
        /\ \A k \in (i + 1)..(j - 1) : IsSpace(s[k])

\* C9 as stated (normalization idempotence): normalizing the normalization
\* of any raw string gives it back.
C9_Idempotent == npc = "twice" => norm2 = norm1

\* C9 as amended: normalization is idempotent on every raw string in which
\* no '.' is followed, directly or after whitespace only, by another '.'.
C9_IdempotentNoDotDot ==
    (npc = "twice" /\ ~HasDotDot(raw)) => norm2 = norm1

C9_Witness ==
    /\ npc = "twice" /\ ~HasDotDot(raw)
    /\ raw = << "B", ".", " ", "a" >>
    /\ norm1 = << "a" >> /\ norm2 = norm1

\* The mapping the last find_gender of the run resolved against
ResolvedAgainst == IF qnCalls = 1 /\ fgCalls = 2 THEN cached ELSE LoadCache

\* The first and last author names of the paired records
PairedNames ==
    UNION { { NormalizeName(SplitAnd(ReplaceNewline(authorLists[i]))[1]),
              NormalizeName(LET l == SplitAnd(ReplaceNewline(authorLists[i]))
                            IN  l[Len(l)]) } :
            i \in 1..ZipLen(bibIds, authorLists) }

\* find_gender has just returned
JustResolved == pc \in { "gate", "report" }

\* Every cached name has its stored label, and the missed names are the
\* paired names that are not cached
Partitioned ==
    /\ \A b \in DOMAIN resolved : \A k \in 1..2 :
          resolved[b][k][1] \in DOMAIN ResolvedAgainst =>
              resolved[b][k][2] = ResolvedAgainst[resolved[b][k][1]]
    /\ missed = PairedNames \ DOMAIN ResolvedAgainst

\* The step changes neither names.cache nor the mapping query_names returned
LeftAlone == file' = file /\ fileExists' = fileExists /\ cached' = cached

\* A step that is a call of find_gender leaves them alone
PureStep == (pc \in { "pass1", "pass2" }) => LeftAlone

\* C10 (resolver purity and partition): find_gender leaves the mapping and
\* names.cache as they were; a name that is a key of the mapping gets the
\* label stored for it; the missed set is exactly the first and last author
\* names of the paired records that are not keys of the mapping.
C10_PurityPartition == [](JustResolved => Partitioned) /\ [][PureStep]_vars

C10_Witness ==
    /\ pc = "report" /\ fgCalls = 2
    /\ bibIds = BibDup.ids
    /\ NameAnn \in missed /\ NameBob \in DOMAIN cached
    /\ resolved["dup2020"] = << << NameBob, "F" >>, << NameBob, "F" >> >>

\* The first and the last normalized author name of an author field
NamesOfField(field) ==
    LET authlst == SplitAnd(ReplaceNewline(field))
    IN  << NormalizeName(authlst[1]), NormalizeName(authlst[Len(authlst)]) >>

\* C11 (one resolved record per raw record): find_gender returns as many
\* resolved records as there are positionally paired raw records, the
\* smaller of the number of citation keys and the number of author fields.
C11_OnePerRawRecord ==
    AfterPass1 => Cardinality(DOMAIN resolved) = ZipLen(bibIds, authorLists)

\* C13 (cache value invariant): from a cache file whose values are all "M"
\* or "F", after any runs every value in names.cache is "M" or "F"; the
\* label None is never written.
C13_CacheValues ==
    \A n \in DOMAIN file : file[n] \in { "M", "F" }

C13_Witness ==
    /\ pc = "pass2" /\ writes = 1 /\ run = 2
    /\ NameBob \in DOMAIN file /\ NameBob \notin DOMAIN cached0
    /\ NameEve \in lowConf /\ NameEve \notin DOMAIN file

\* C14 (empty report): with no resolved record the run does not fail:
\* compute_gender_stats gives each of the nine categories the ratio NaN,
\* the no-data value, and main runs to its end.
C14_EmptyReport ==
    (pc \in { "done", "crashed" } /\ fgCalls >= 1 /\ DOMAIN resolved = {}) =>
        /\ pc = "done"
        /\ \A c \in Categories : genderReport[c] = 0
        /\ DOMAIN statsReport = Categories
        /\ \A c \in Categories : statsReport[c].kind = "nan"

C14_Witness ==
    /\ pc = "done" /\ bibIds = << >> /\ DOMAIN resolved = {}
    /\ DOMAIN statsReport = Categories
    /\ statsReport["NoneNone"].kind = "nan"

\* C15 (ratio sum): for a report whose total is > 0, compute_gender_stats
\* gives every category the ratio count / total, and the nine ratios sum to
\* 1 within 1e-9: as fractions they sum to total / total, and the nine
\* divisions and eight additions of the floats each round by at most 2^-53,
\* of which 1e-9 holds more than 9007199.
C15_RatioSum ==
    (pc = "statsdone" /\ RowSum(genderReport, Categories) > 0) =>
        LET total == RowSum(genderReport, Categories)
        IN  /\ DOMAIN statsReport = Categories
            /\ \A c \in Categories :
                  /\ statsReport[c].kind = "num"
                  /\ statsReport[c].num = genderReport[c]
                  /\ statsReport[c].den = total
            /\ SumOver([ c \in Categories |-> statsReport[c].num ], Categories)
                  = statsReport["MM"].den
            /\ 2 * Cardinality(Categories) - 1 <= 9007199

C15_Witness ==
    /\ pc = "statsdone"
    /\ RowSum(genderReport, Categories) = 3
    /\ statsReport["MF"] = [ kind |-> "num", num |-> 1, den |-> 3 ]
    /\ statsReport["MM"] = [ kind |-> "num", num |-> 0, den |-> 3 ]

\* C16 (positional pairing): for every index i up to the smaller of the two
\* counts, the record stored under the i-th citation key carries the first
\* and last author of the i-th author field; surplus keys and fields are
\* dropped without an error.
C16_PositionalPairing ==
    AfterPass1 =>
        /\ DOMAIN resolved =
              { bibIds[i] : i \in 1..ZipLen(bibIds, authorLists) }
        /\ \A i \in 1..ZipLen(bibIds, authorLists) :
              /\ resolved[bibIds[i]][1][1] = NamesOfField(authorLists[i])[1]
              /\ resolved[bibIds[i]][2][1] = NamesOfField(authorLists[i])[2]

\* The names the resolved records carry with the label None
NoneNames ==
    UNION { { resolved[b][k][1] : k \in { j \in 1..2 : resolved[b][j][2] = "None" } } :
            b \in DOMAIN resolved }

\* C19 (missed set agrees with resolved records): the missed set find_gender
\* returns is exactly the set of names that one of the resolved records of
\* the same call carries with the label None.
C19_MissedAgrees == AfterPass1 => missed = NoneNames

\* C20 (pass monotonicity): in a run no other process disturbs, a name pass
\* 1 resolved to a label has that label in the final resolved records, and
\* the final missed set is a subset of the missed set of pass 1.
C20_PassMonotone ==
    pc \in { "report", "done" } =>
        /\ missed \subseteq missed1
        /\ DOMAIN resolved = DOMAIN resolved1
        /\ \A b \in DOMAIN resolved1 : \A k \in 1..2 :
              resolved1[b][k][2] # "None" => resolved[b][k] = resolved1[b][k]

C20_Witness ==
    /\ pc = "done" /\ fgCalls = 2
    /\ bibIds = BibThree.ids
    /\ resolved1["three2020"] = << << NameAnn, "F" >>, << NameBob, "None" >> >>
    /\ resolved["three2020"] = << << NameAnn, "F" >>, << NameBob, "M" >> >>
    /\ missed1 = { NameBob, NameEve } /\ missed = { NameEve }

\* Whether mapping f holds every entry of mapping g, with the same label
Extends(f, g) == \A n \in DOMAIN g : n \in DOMAIN f /\ f[n] = g[n]

\* C12 (lost update under concurrent runs): the write of a query_names run
\* leaves in names.cache the mapping of that run and nothing else, so after the
\* last write the file is the last writer's mapping, whatever another run
\* wrote before it.
C12_LastWriterWins ==
    \A p \in Procs : procs[p].last => file = procs[p].cached

\* Both runs loaded the absent file before either wrote; one learned ann, the
\* other bob; both have written and returned, and ann, learned with
\* accuracy >= 60, is not in names.cache.
C12_Witness ==
    /\ procs["p1"].pc = "returned" /\ procs["p2"].pc = "returned"
    /\ procs["p1"].calls = 1 /\ procs["p2"].calls = 1
    /\ procs["p1"].writes = 1 /\ procs["p2"].writes = 1
    /\ procs["p1"].cached0 = << >> /\ procs["p2"].cached0 = << >>
    /\ procs["p1"].cached = (NameAnn :> "F")
    /\ procs["p2"].cached = (NameBob :> "M")
    /\ procs["p2"].last
    /\ NameAnn \in learned
    /\ NameAnn \notin DOMAIN file

\* C17 (query_names only adds to the cache), for calls made one after the
\* other: a lookup is issued only for requested names that were not keys of
\* the file when the call loaded it; the entries the file had then are in the
\* file at every later moment and, once the call has returned, in the returned
\* mapping, with the same label; and a call that finds no requested name
\* missing returns the loaded mapping with no lookup and no write.
C17_OnlyAdds ==
    LET c == procs["p1"]
    IN  /\ Range(c.queried) \subseteq c.nameset \ DOMAIN c.cached0
        /\ Extends(LoadCache, c.cached0)
        /\ c.pc = "returned" => Extends(c.cached, c.cached0)
        /\ (c.pc = "returned" /\ c.nameset \subseteq DOMAIN c.cached0) =>
               /\ c.queried = << >>
               /\ c.writes = 0
               /\ c.cached = c.cached0
               /\ c.cached = LoadCache

\* The second call of a process: its first call found ann in the file, looked
\* bob up and added it; the second, asked for both names, finds none missing
\* and returns the file's mapping with no lookup and no write.
C17_Witness ==
    LET c == procs["p1"]
    IN  /\ c.pc = "returned" /\ c.calls = 2
        /\ apiKey
        /\ c.nameset = { NameAnn, NameBob }
        /\ c.cached0 = (NameAnn :> "F") @@ (NameBob :> "M")
        /\ c.cached = c.cached0 /\ file = c.cached0
        /\ NameBob \in learned
        /\ c.queried = << >> /\ c.writes = 0

\* C18 (lookup ordering): with a credential, the requests of a query_names
\* call are issued for the missing names in ascending sorted order, one each;
\* when the call is over every missing name has had its request and
\* names.cache has been written exactly once, and it is never written before
\* the last request.
C18_LookupOrdering ==
    (apiKey /\ qnCalls = 1) =>
        /\ \A i, j \in 1..Len(allMisses) : i < j => StrLess(allMisses[i], allMisses[j])
        /\ Len(queried) <= Len(allMisses)
        /\ queried = SubSeq(allMisses, 1, Len(queried))
        /\ writes <= 1
        /\ writes = 1 => queried = allMisses
        /\ pc # "lookup" => (queried = allMisses /\ writes = 1)

====
